---------------------------- MODULE Spec2Model ----------------------------
(***************************************************************************)
(* Gesture classification and temporal stabilization engine of the         *)
(* hand-recognition application (class GestureRecognizer).                  *)
(*                                                                         *)
(* Two revisions of the recognizer are modelled side by side; the revision *)
(* is fixed when the recognizer is constructed:                            *)
(*   "simplified"  src/src/utils/gestureRecognition.ts                      *)
(*                 (window 3, 2 detections required, 300 ms cooldown)       *)
(*   "palmFacing"  src/unnamed/part_003, second class (lines 279-561)       *)
(*                 (window 5, 3 detections required, 800 ms cooldown)       *)
(*                                                                         *)
(* Coordinates are the tracker's normalized floats in hundredths           *)
(* (0.05 is 5, 1.0 is 100); times are milliseconds as read from Date.now().*)
(* A coordinate may also be NaN; comparisons with NaN are false and        *)
(* arithmetic on NaN gives NaN, as in JavaScript.                          *)
(***************************************************************************)
EXTENDS Integers, Sequences, FiniteSets, TLC

(***************************************************************************)
(* Bounds of the model.                                                    *)
(***************************************************************************)
\* Date.now() when the page starts (any value far above the cooldowns).
StartTime == 1000
\* The clock is not advanced beyond this value.
MaxTime == 1900
\* At most this many frames are sent to the tracker and not yet answered.
MaxInFlight == 1
\* Length of the tracked run of identical frames on a fresh recognizer.
MaxSteady == 6
\* Consecutive frames without a hand are counted up to this number.
MaxRun == 2

(***************************************************************************)
(* Program constants.                                                      *)
(***************************************************************************)
Revisions == {"simplified", "palmFacing"}

\* setInterval(..., 100) of the detection loop
TickMs == 100

CapacitySimplified == 3
CapacityPalmFacing == 5
RequiredSimplified == 2
RequiredPalmFacing == 3
CooldownSimplified == 300
CooldownPalmFacing == 800

BufferCapacity(r) == IF r = "simplified" THEN CapacitySimplified ELSE CapacityPalmFacing
\* variant: one detection is enough
RequiredCount_One(r) == 1

RequiredCount(r) == IF r = "simplified" THEN RequiredSimplified ELSE RequiredPalmFacing
Cooldown(r) == IF r = "simplified" THEN CooldownSimplified ELSE CooldownPalmFacing

\* the largest landmark index the classifier dereferences (pinky tip)
MaxLandmarkIndex == 20

ConcreteLabels ==
  {"fist", "open_palm", "thumbs_up", "pointing", "peace", "rock_on", "ok_sign"}

\* getMostFrequentGesture returns null
NoGesture == "null"

\* the callback is invoked with null
NullResult == [type |-> "null", confidence |-> 0]

(***************************************************************************)
(* Landmarks.  landmarks[i] of the code is LM(landmarks, i).               *)
(***************************************************************************)
LM(landmarks, i) == landmarks[i + 1]

\* the number NaN (a value no coordinate, difference or product takes)
NaN == 0 - 1000000

IsNaN(v) == v = NaN

\* a < b and a > b on numbers: false when either side is NaN
Lt(a, b) == ~IsNaN(a) /\ ~IsNaN(b) /\ a < b
Gt(a, b) == ~IsNaN(a) /\ ~IsNaN(b) /\ a > b

\* a + b, a - b and a * b on numbers: NaN when either side is NaN
Add(a, b) == IF IsNaN(a) \/ IsNaN(b) THEN NaN ELSE a + b
Sub(a, b) == IF IsNaN(a) \/ IsNaN(b) THEN NaN ELSE a - b
Mul(a, b) == IF IsNaN(a) \/ IsNaN(b) THEN NaN ELSE a * b

\* Math.abs
Abs(v) == IF IsNaN(v) THEN NaN ELSE IF v < 0 THEN 0 - v ELSE v

B2N(b) == IF b THEN 1 ELSE 0

Min(a, b) == IF a < b THEN a ELSE b

\* variant: the reduce starts at the second entry
SumSeq_SkipFirst(s) ==
  LET sum[i \in 1..Len(s)] == IF i = 1 THEN 0 ELSE sum[i - 1] + s[i]
  IN  sum[Len(s)]

\* s.reduce((sum, finger) => sum + finger, 0)
SumSeq(s) ==
  LET sum[i \in 0..Len(s)] == IF i = 0 THEN 0 ELSE sum[i - 1] + s[i]
  IN  sum[Len(s)]

(***************************************************************************)
(* Finger-state extractor.                                                 *)
(***************************************************************************)
\* gestureRecognition.ts: getFingersUpSimplified (handedness is not used)
getFingersUpSimplified(landmarks, handedness) ==
  LET thumbTip == LM(landmarks, 4)
      thumbMcp == LM(landmarks, 2)
      indexMcp == LM(landmarks, 5)
      thumbDistance == Abs(Sub(thumbTip.x, indexMcp.x))
      isThumbUp == Gt(thumbDistance, 5) /\ Lt(thumbTip.y, Add(thumbMcp.y, 2))
      fingerTips == <<8, 12, 16, 20>>
      fingerPips == <<6, 10, 14, 18>>
      fingerMcps == <<5, 9, 13, 17>>
      isFingerUp(i) ==
        LET tipY == LM(landmarks, fingerTips[i]).y
            pipY == LM(landmarks, fingerPips[i]).y
            mcpY == LM(landmarks, fingerMcps[i]).y
        IN  Lt(tipY, pipY) /\ Lt(tipY, mcpY)
  IN  <<B2N(isThumbUp)>> \o [i \in 1..4 |-> B2N(isFingerUp(i))]

\* variant: the thumb is tested as that of a right hand for every hand
ThumbExtended_RightOnly(thumbTip, thumbIp, handedness) ==
  Gt(thumbTip.x, thumbIp.x)

\* part_003: the thumb test of getFingersUp: the tip is to the right of the
\* IP joint for a right hand, to the left of it for any other hand
ThumbExtended(thumbTip, thumbIp, handedness) ==
  IF handedness = "Right"
  THEN Gt(thumbTip.x, thumbIp.x)
  ELSE Lt(thumbTip.x, thumbIp.x)

\* part_003: getFingersUp
getFingersUp(landmarks, handedness) ==
  LET tips == <<4, 8, 12, 16, 20>>
      pips == <<3, 6, 10, 14, 18>>
      mcps == <<2, 5, 9, 13, 17>>
      thumbTip == LM(landmarks, tips[1])
      thumbIp == LM(landmarks, pips[1])
      thumb == B2N(ThumbExtended(thumbTip, thumbIp, handedness))
      fingerUp(i) ==
        LET tipY == LM(landmarks, tips[i]).y
            pipY == LM(landmarks, pips[i]).y
            mcpY == LM(landmarks, mcps[i]).y
        IN  B2N(Lt(tipY, pipY) /\ Lt(pipY, mcpY))
  IN  <<thumb>> \o [i \in 1..4 |-> fingerUp(i + 1)]

\* part_003: isThumbsUp
isThumbsUp(landmarks, handedness) ==
  LET thumbTip == LM(landmarks, 4)
      thumbMcp == LM(landmarks, 2)
      indexMcp == LM(landmarks, 5)
      isPointingUp == Lt(thumbTip.y, thumbMcp.y) /\ Lt(thumbTip.y, indexMcp.y)
      thumbDistance == Abs(Sub(thumbTip.x, indexMcp.x))
      isExtended == Gt(thumbDistance, 5)
  IN  isPointingUp /\ isExtended

\* squared 2D distance of thumb tip and index tip, in hundredths squared
TipDistanceSq(landmarks) ==
  LET thumbTip == LM(landmarks, 4)
      indexTip == LM(landmarks, 8)
      dx == Sub(thumbTip.x, indexTip.x)
      dy == Sub(thumbTip.y, indexTip.y)
  IN  Add(Mul(dx, dx), Mul(dy, dy))

\* gestureRecognition.ts: isOkGestureSimplified (distance < 0.08)
isOkGestureSimplified(landmarks) ==
  LET middleUp == Lt(LM(landmarks, 12).y, LM(landmarks, 10).y)
      ringUp == Lt(LM(landmarks, 16).y, LM(landmarks, 14).y)
      pinkyUp == Lt(LM(landmarks, 20).y, LM(landmarks, 18).y)
      otherFingersUp == B2N(middleUp) + B2N(ringUp) + B2N(pinkyUp) >= 2
  IN  Lt(TipDistanceSq(landmarks), 8 * 8) /\ otherFingersUp

\* part_003: isOkGesture (distance < 0.05)
isOkGesture(landmarks) ==
  LET middleUp == Lt(LM(landmarks, 12).y, LM(landmarks, 10).y)
      ringUp == Lt(LM(landmarks, 16).y, LM(landmarks, 14).y)
      pinkyUp == Lt(LM(landmarks, 20).y, LM(landmarks, 18).y)
  IN  Lt(TipDistanceSq(landmarks), 5 * 5) /\ (middleUp \/ ringUp \/ pinkyUp)

\* variant: the ok_sign test comes before the finger-count rules
classifyGestureSimplified_OkFirst(landmarks, handedness) ==
  LET fingersUp == getFingersUpSimplified(landmarks, handedness)
      fingerCount == SumSeq(fingersUp)
  IN  IF isOkGestureSimplified(landmarks) THEN "ok_sign"
      ELSE IF fingerCount = 0 THEN "fist"
      ELSE IF fingerCount = 5 THEN "open_palm"
      ELSE IF fingersUp[1] = 1 /\ fingerCount = 1 THEN "thumbs_up"
      ELSE IF fingersUp[2] = 1 /\ fingerCount = 1 THEN "pointing"
      ELSE IF fingersUp[2] = 1 /\ fingersUp[3] = 1 /\ fingerCount = 2 THEN "peace"
      ELSE IF fingersUp[2] = 1 /\ fingersUp[5] = 1 /\ fingerCount = 2 THEN "rock_on"
      ELSE "unknown"

(***************************************************************************)
(* Gesture classifier.                                                     *)
(***************************************************************************)
\* gestureRecognition.ts: classifyGesture
classifyGestureSimplified(landmarks, handedness) ==
  LET fingersUp == getFingersUpSimplified(landmarks, handedness)
      fingerCount == SumSeq(fingersUp)
  IN  IF fingerCount = 0 THEN "fist"
      ELSE IF fingerCount = 5 THEN "open_palm"
      ELSE IF fingersUp[1] = 1 /\ fingerCount = 1 THEN "thumbs_up"
      ELSE IF fingersUp[2] = 1 /\ fingerCount = 1 THEN "pointing"
      ELSE IF fingersUp[2] = 1 /\ fingersUp[3] = 1 /\ fingerCount = 2 THEN "peace"
      ELSE IF fingersUp[2] = 1 /\ fingersUp[5] = 1 /\ fingerCount = 2 THEN "rock_on"
      ELSE IF isOkGestureSimplified(landmarks) THEN "ok_sign"
      ELSE "unknown"

\* part_003: classifyGesture
classifyGesturePalmFacing(landmarks, handedness) ==
  LET fingersUp == getFingersUp(landmarks, handedness)
      fingerCount == SumSeq(fingersUp)
  IN  IF fingerCount = 0 THEN "fist"
      ELSE IF fingerCount = 5 THEN "open_palm"
      ELSE IF fingersUp[2] = 1 /\ fingerCount = 1 THEN "pointing"
      ELSE IF fingersUp[1] = 1 /\ fingerCount = 1
        THEN (IF isThumbsUp(landmarks, handedness) THEN "thumbs_up" ELSE "unknown")
      ELSE IF fingersUp[2] = 1 /\ fingersUp[3] = 1 /\ fingerCount = 2 THEN "peace"
      ELSE IF fingersUp[1] = 1 /\ fingersUp[2] = 1 /\ isOkGesture(landmarks) THEN "ok_sign"
      ELSE IF fingersUp[2] = 1 /\ fingersUp[5] = 1 /\ fingerCount = 2 THEN "rock_on"
      ELSE "unknown"

\* the finger-state vector (thumb, index, middle, ring, pinky) of revision r
FingersUp(r, landmarks, handedness) ==
  IF r = "simplified"
  THEN getFingersUpSimplified(landmarks, handedness)
  ELSE getFingersUp(landmarks, handedness)

classifyGesture(r, landmarks, handedness) ==
  IF r = "simplified"
  THEN classifyGestureSimplified(landmarks, handedness)
  ELSE classifyGesturePalmFacing(landmarks, handedness)

\* landmarks[20] is undefined for a shorter array and reading its .y throws
\* a TypeError; both revisions read landmark 20 on every frame.
classifyThrows(landmarks) == Len(landmarks) <= MaxLandmarkIndex

(***************************************************************************)
(* Confidence estimator, in units of 1 / (100 * landmarks.length).         *)
(***************************************************************************)
Visible(p) == Gt(p.x, 10) /\ Lt(p.x, 90) /\ Gt(p.y, 10) /\ Lt(p.y, 90)

VisibilityScore(landmarks) ==
  Cardinality({i \in 1..Len(landmarks) : Visible(landmarks[i])})

\* landmark.z || 0: a z of NaN (or 0, or undefined) is replaced by 0
ZOrZero(p) == IF IsNaN(p.z) THEN 0 ELSE p.z

StabilityScore(landmarks, zBound) ==
  Cardinality({i \in 1..Len(landmarks) : Lt(Abs(ZOrZero(landmarks[i])), zBound)})

\* variant: Math.min only, no lower bound
Clamp_NoFloor(lo, hi, v) == IF v > hi THEN hi ELSE v

\* Math.max(lo, Math.min(hi, v))
Clamp(lo, hi, v) == IF v < lo THEN lo ELSE IF v > hi THEN hi ELSE v

\* gestureRecognition.ts: 0.7 + visibilityRatio * 0.2 + stabilityRatio * 0.1,
\* clamped to [0.6, 0.95]; |z| < 0.2
calculateConfidenceSimplified(landmarks) ==
  LET n == Len(landmarks)
  IN  Clamp(60 * n, 95 * n,
            70 * n + 20 * VisibilityScore(landmarks)
                   + 10 * StabilityScore(landmarks, 20))

\* part_003, first revision: 1 - avgVariance * 10 with avgVariance the mean
\* of |landmark.z || 0|, clamped to [0.5, 0.95]
calculateConfidenceFirst(landmarks) ==
  LET n == Len(landmarks)
      totalVariance == SumSeq([i \in 1..n |-> Abs(ZOrZero(landmarks[i]))])
  IN  Clamp(50 * n, 95 * n, 100 * n - 10 * totalVariance)

\* part_003: stabilityRatio * 0.6 + visibilityRatio * 0.4,
\* clamped to [0.5, 0.95]; |z| < 0.1
calculateConfidencePalmFacing(landmarks) ==
  LET n == Len(landmarks)
  IN  Clamp(50 * n, 95 * n,
            60 * StabilityScore(landmarks, 10)
              + 40 * VisibilityScore(landmarks))

calculateConfidence(r, landmarks) ==
  IF r = "simplified"
  THEN calculateConfidenceSimplified(landmarks)
  ELSE IF r = "first"
  THEN calculateConfidenceFirst(landmarks)
  ELSE calculateConfidencePalmFacing(landmarks)

\* variant: the threshold is the sensitivity itself
PassesSensitivity_Unscaled(confidence, n, sensitivity) ==
  confidence >= 10 * sensitivity * n

\* result.confidence >= (sensitivity / 100), with the confidence in units of
\* 1 / (100 * n) and the sensitivity in tenths
PassesSensitivity(confidence, n, sensitivity) ==
  10 * confidence >= sensitivity * n

(***************************************************************************)
(* Temporal stabilizer: helpers of processResults.                         *)
(***************************************************************************)
\* variant: what empties the buffer also resets the time of the last emission
KeptGestureTime_Reset(last) == 0

\* neither the branch for a frame without a hand nor destroy() assigns
\* lastGestureTime
KeptGestureTime(last) == last

\* variant: processResults does not test the callback
NoCallback_Never(callback) == FALSE

\* if (!this.onResultsCallback) return
NoCallback(callback) == ~callback

\* variant: the event carries landmarks that are not those of the frame
GestureResult_OtherLandmarks(r, consistentGesture, handLandmarks) ==
  [type |-> consistentGesture,
   confidence |-> calculateConfidence(r, handLandmarks),
   landmarks |-> [handLandmarks EXCEPT ![1].x = NaN]]

\* { type: consistentGesture, confidence: confidence, landmarks: handLandmarks }
GestureResult(r, consistentGesture, handLandmarks) ==
  [type |-> consistentGesture,
   confidence |-> calculateConfidence(r, handLandmarks),
   landmarks |-> handLandmarks]

Range(s) == {s[i] : i \in 1..Len(s)}

\* frequency[gesture] after the forEach over the buffer
Frequency(buffer, gesture) ==
  Cardinality({i \in 1..Len(buffer) : buffer[i] = gesture})

\* Object.keys(frequency): the distinct labels in order of first occurrence
FrequencyKeys(buffer) ==
  LET first == {i \in 1..Len(buffer) : \A j \in 1..(i - 1) : buffer[j] # buffer[i]}
      nth(k) == CHOOSE i \in first : Cardinality({j \in first : j < i}) = k - 1
  IN  [k \in 1..Cardinality(first) |-> buffer[nth(k)]]

\* keys.reduce((a, b) => frequency[a] > frequency[b] ? a : b): without an
\* initial value the accumulator a starts from the first key
ReduceKeys(buffer, keys) ==
  LET acc[i \in 1..Len(keys)] ==
        IF i = 1 THEN keys[1]
        ELSE LET a == acc[i - 1]
                 b == keys[i]
             IN  IF Frequency(buffer, a) > Frequency(buffer, b) THEN a ELSE b
  IN  acc[Len(keys)]

\* variant: the required number of detections is not checked
getMostFrequentGesture_NoThreshold(r, buffer) ==
  IF Len(buffer) = 0 THEN NoGesture
  ELSE ReduceKeys(buffer, FrequencyKeys(buffer))

\* variant: the count is compared with === instead of >=
getMostFrequentGesture_ExactCount(r, buffer) ==
  IF Len(buffer) = 0 THEN NoGesture
  ELSE LET mostFrequent == ReduceKeys(buffer, FrequencyKeys(buffer))
       IN  IF Frequency(buffer, mostFrequent) = RequiredCount(r)
           THEN mostFrequent
           ELSE NoGesture

getMostFrequentGesture(r, buffer) ==
  IF Len(buffer) = 0 THEN NoGesture
  ELSE LET mostFrequent == ReduceKeys(buffer, FrequencyKeys(buffer))
       IN  IF Frequency(buffer, mostFrequent) >= RequiredCount(r)
           THEN mostFrequent
           ELSE NoGesture

\* variant: the oldest entry is dropped as soon as the buffer is full
PushGesture_ShiftWhenFull(r, buffer, gestureType) ==
  LET pushed == Append(buffer, gestureType)
  IN  IF Len(pushed) >= BufferCapacity(r) THEN Tail(pushed) ELSE pushed

\* gestureBuffer.push(gestureType); if (length > capacity) gestureBuffer.shift()
PushGesture(r, buffer, gestureType) ==
  LET pushed == Append(buffer, gestureType)
  IN  IF Len(pushed) > BufferCapacity(r) THEN Tail(pushed) ELSE pushed

\* variant: an event is allowed when exactly the cooldown has elapsed
CooldownElapsed_NonStrict(r, t, last) == t - last >= Cooldown(r)

\* Date.now() - this.lastGestureTime > cooldown
CooldownElapsed(r, t, last) == t - last > Cooldown(r)

\* variant: every label is buffered
IsBuffered_Always(gestureType) == TRUE

\* if (gestureType !== 'unknown')
IsBuffered(gestureType) == gestureType # "unknown"

\* variant: the buffer is not reset
ClearedBuffer_Keep(buffer) == buffer

\* this.gestureBuffer = []
ClearedBuffer(buffer) == <<>>

(***************************************************************************)
(* Tracker results delivered to the recognizer.                            *)
(***************************************************************************)
Pt(px, py) == [x |-> px, y |-> py, z |-> 0]

\* some coordinate of the hand is NaN
HasNaN(landmarks) ==
  \E i \in 1..Len(landmarks) :
    IsNaN(landmarks[i].x) \/ IsNaN(landmarks[i].y) \/ IsNaN(landmarks[i].z)

\* the four landmarks MCP, PIP, DIP, tip of one of the fingers index..pinky
FingerPts(px, up) ==
  <<Pt(px, 60), Pt(px, 50), Pt(px, 45), Pt(px, IF up THEN 40 ELSE 55)>>

\* a hand of 21 landmarks with the thumb folded over the palm
HandPose(index, middle, ring, pinky) ==
  <<Pt(50, 90), Pt(46, 80), Pt(44, 70), Pt(42, 62), Pt(42, 58)>>
    \o FingerPts(40, index) \o FingerPts(50, middle)
    \o FingerPts(60, ring) \o FingerPts(70, pinky)

FistPose == HandPose(FALSE, FALSE, FALSE, FALSE)
PointingPose == HandPose(TRUE, FALSE, FALSE, FALSE)
ThreePose == HandPose(TRUE, TRUE, TRUE, FALSE)
\* a frame that lost its last landmark (20 landmarks)
ShortPose == SubSeq(PointingPose, 1, MaxLandmarkIndex)

\* the pointing hand with the y of the index tip (landmark 8) lost
NaNPose == [PointingPose EXCEPT ![9].y = NaN]

Poses == {FistPose, PointingPose, ThreePose, ShortPose, NaNPose}

\* the hands with a missing landmark or a NaN coordinate
BrokenPoses == {ShortPose, NaNPose}

\* results.multiHandedness?.[0]?.label ("none" when absent)
HandednessLabels == {"Left", "Right", "none"}

\* results of the tracker: the detected hands and the label of the first one
TrackerResults ==
  [multiHandLandmarks : {<<>>}, label : {"none"}]
    \cup [multiHandLandmarks : {<<p>> : p \in Poses \ BrokenPoses},
          label : HandednessLabels]
    \cup [multiHandLandmarks : {<<p>> : p \in BrokenPoses}, label : {"Right"}]

\* the first hand of the results and its handedness ('Right' when absent)
FirstHand(results) == results.multiHandLandmarks[1]
Handedness(results) == IF results.label = "none" THEN "Right" ELSE results.label

\* the first hand of the results has a NaN coordinate
HasNaNHand(results) ==
  Len(results.multiHandLandmarks) > 0 /\ HasNaN(FirstHand(results))

\* what revision r finds in the results: no hand, a hand the classifier
\* cannot read, or the label classifyGesture returns for the first hand
KindOf(r, results) ==
  IF Len(results.multiHandLandmarks) = 0 THEN "nohand"
  ELSE IF classifyThrows(FirstHand(results)) THEN "malformed"
  ELSE classifyGesture(r, FirstHand(results), Handedness(results))

\* KindOf, tabulated over the results the tracker can deliver
FrameKinds ==
  {<<r, results, KindOf(r, results)>> : r \in Revisions, results \in TrackerResults}

(***************************************************************************)
(* State.                                                                  *)
(***************************************************************************)
VARIABLES
  rev,               \* the revision of the class that was constructed
  isInitialized,     \* GestureRecognizer.isInitialized
  onResultsCallback, \* TRUE iff GestureRecognizer.onResultsCallback is not null
  gestureBuffer,     \* GestureRecognizer.gestureBuffer
  lastGestureTime,   \* GestureRecognizer.lastGestureTime
  now,               \* Date.now()
  inFlight,          \* frames sent to the tracker whose results are pending
  lastFrame,         \* what the last delivered result shows: "nohand",
                     \* "malformed" or the label of its first hand
  lastHasNaN,        \* TRUE iff a coordinate of that first hand is NaN
  received,          \* what the callback was called with for that result
  thrown,            \* the exception the last operation ended with, or "none"
  emitTimes,         \* the times of the last two emitted events
  voted,             \* the last value returned by getMostFrequentGesture
                     \* when it is called on its own, "pending" before
  steady,            \* run of identical frames, TickMs apart, on a fresh recognizer
  noHandRun,         \* number of frames without a hand processed in a row
  detectionInterval, \* TRUE iff detectionIntervalRef.current holds a timer
  lastSessionOp,     \* "stop" or "reset" when detection was stopped or the
                     \* session was reset and no frame was sent or answered
                     \* since, "none" otherwise
  frame,             \* the hand given to classifyGesture when it is called on
                     \* its own: [landmarks, handedness]
  gesture,           \* the label classifyGesture returned for frame, "pending" before
  mirrored,          \* when frame is the mirror image of a classified frame:
                     \* the label of that frame, "none" otherwise
  peer,              \* the fields of a second GestureRecognizer instance
  sensitivity,       \* the sensitivity prop of the detector, in tenths
  confidence,        \* the value calculateConfidence returned for frame when
                     \* it is called on its own, NoConfidence before
  forwarded,         \* TRUE iff the detector's callback passed an event with
                     \* that confidence on to onGestureDetected
  previous,          \* the landmarks and the confidence of the frame before one
                     \* of its landmarks was changed
  isDetecting,       \* the isDetecting prop of the detector (state of App)
  hasCamera,         \* the hasCamera state of the detector
  timers,            \* the number of interval timers set and not cleared
  effectSaw          \* the values of isDetecting, hasCamera and modelReady the
                     \* effect on them last ran with

\* the variables of the classifier called on its own, and the second
\* instance: the operations on the first instance leave them alone
confVars == <<sensitivity, confidence, forwarded, previous>>

auxVars == <<frame, gesture, mirrored, peer, confVars>>

\* the state the effect on [isDetecting, hasCamera, modelReady] works with
detectorVars == <<isDetecting, hasCamera, timers, effectSaw>>

\* the variables of the detector component
sessionVars == <<detectionInterval, lastSessionOp, detectorVars>>

\* setModelReady(true) follows the await of initialize(), setModelReady(false)
\* its failure
modelReady == isInitialized

\* the dependencies of the effect
EffectDeps == <<isDetecting, hasCamera, modelReady>>

\* useState(false) twice, no timer, and the effect has run on mount
DetectorOff ==
  /\ isDetecting = FALSE
  /\ hasCamera = FALSE
  /\ timers = 0
  /\ effectSaw = <<FALSE, FALSE, FALSE>>

vars == <<rev, isInitialized, onResultsCallback, gestureBuffer, lastGestureTime,
          now, inFlight, lastFrame, lastHasNaN, received, thrown, emitTimes,
          voted, steady, noHandRun, sessionVars, auxVars>>

NoFrame == [landmarks |-> <<>>, handedness |-> "Right"]

\* new GestureRecognizer(): the field initializers run for each instance;
\* received is what the callback of the instance was last called with
NewRecognizer ==
  [isInitialized |-> FALSE, onResultsCallback |-> FALSE, gestureBuffer |-> <<>>,
   lastGestureTime |-> 0, received |-> <<>>]

\* const [sensitivity, setSensitivity] = useState(0.7)
DefaultSensitivity == 7

NoConfidence == 0 - 1

NoPrevious == [landmarks |-> <<>>, confidence |-> NoConfidence]

ConfOff ==
  /\ sensitivity = DefaultSensitivity
  /\ confidence = NoConfidence
  /\ forwarded = FALSE
  /\ previous = NoPrevious

AuxOff ==
  /\ frame = NoFrame
  /\ gesture = "pending"
  /\ mirrored = "none"
  /\ peer = NewRecognizer
  /\ ConfOff

SteadyOff == [n |-> 0 - 1, label |-> "none", at |-> 0, emits |-> <<>>]

\* private lastGestureTime = 0; private gestureBuffer = []; callback null
Init ==
  /\ rev \in Revisions
  /\ isInitialized = FALSE
  /\ onResultsCallback = FALSE
  /\ gestureBuffer = <<>>
  /\ lastGestureTime = 0
  /\ now = StartTime
  /\ inFlight = 0
  /\ lastFrame = "none"
  /\ lastHasNaN = FALSE
  /\ received = <<>>
  /\ thrown = "none"
  /\ emitTimes = <<>>
  /\ voted = "pending"
  /\ steady = [n |-> 0, label |-> "none", at |-> 0, emits |-> <<>>]
  /\ noHandRun = 0
  /\ detectionInterval = FALSE
  /\ lastSessionOp = "none"
  /\ DetectorOff
  /\ AuxOff

(***************************************************************************)
(* Operations.                                                             *)
(***************************************************************************)
\* time passes
Tick ==
  /\ now + TickMs <= MaxTime
  /\ now' = now + TickMs
  /\ UNCHANGED <<rev, isInitialized, onResultsCallback, gestureBuffer,
                 lastGestureTime, inFlight, lastFrame, lastHasNaN, received,
                 thrown, emitTimes, voted, steady, noHandRun, sessionVars, auxVars>>

\* initialize(): loads the tracker and registers processResults with it;
\* loading may fail, and then the recognizer stays uninitialized
Initialize(ok) ==
  /\ ~isInitialized
  /\ isInitialized' = ok
  /\ thrown' = IF ok THEN "none" ELSE "LoadError"
  /\ UNCHANGED <<rev, onResultsCallback, gestureBuffer, lastGestureTime, now,
                 inFlight, lastFrame, lastHasNaN, received, emitTimes, voted,
                 steady, noHandRun, sessionVars, auxVars>>

\* detectGesture(video, callback): registers the callback and sends the frame
DetectGesture ==
  /\ inFlight < MaxInFlight
  /\ IF ~isInitialized
     THEN /\ thrown' = "NotInitialized"
          /\ UNCHANGED <<onResultsCallback, inFlight>>
     ELSE /\ onResultsCallback' = TRUE
          /\ inFlight' = inFlight + 1
          /\ thrown' = "none"
  /\ lastSessionOp' = "none"
  /\ UNCHANGED <<rev, isInitialized, gestureBuffer, lastGestureTime, now,
                 lastFrame, lastHasNaN, received, emitTimes, voted, steady,
                 noHandRun, detectionInterval, detectorVars, auxVars>>

\* destroy()
Destroy ==
  /\ gestureBuffer' = ClearedBuffer(gestureBuffer)
  /\ onResultsCallback' = FALSE
  /\ thrown' = "none"
  /\ steady' = SteadyOff
  /\ noHandRun' = 0
  /\ lastGestureTime' = KeptGestureTime(lastGestureTime)
  /\ UNCHANGED <<rev, isInitialized, now, inFlight,
                 lastFrame, lastHasNaN, received, emitTimes, voted, sessionVars,
                 auxVars>>

\* what the constructed revision finds in the results
FrameKind(results) ==
  CHOOSE kind \in ConcreteLabels \cup {"unknown", "nohand", "malformed"} :
    <<rev, results, kind>> \in FrameKinds

\* the run of identical frames after a frame classified as label; emitted is
\* the label of the event of that frame, or NoGesture
SteadyAfter(label, emitted) ==
  IF /\ steady.n >= 0
     /\ steady.n < MaxSteady
     /\ label \in ConcreteLabels
     /\ steady.n = 0 \/ (steady.label = label /\ now = steady.at + TickMs)
  THEN [n |-> steady.n + 1, label |-> label, at |-> now,
        emits |-> IF emitted # NoGesture
                  THEN Append(steady.emits,
                              [frame |-> steady.n + 1, type |-> emitted])
                  ELSE steady.emits]
  ELSE SteadyOff

LogEmission ==
  IF Len(emitTimes) = 2 THEN <<emitTimes[2], now>> ELSE Append(emitTimes, now)

\* processResults(results), called by the tracker for a frame that was sent
ProcessResults(results) ==
  /\ inFlight > 0
  /\ inFlight' = inFlight - 1
  /\ UNCHANGED <<rev, isInitialized, onResultsCallback, now, voted,
                 detectionInterval, detectorVars, auxVars>>
  /\ lastSessionOp' = "none"
  /\ lastFrame' = FrameKind(results)
  /\ lastHasNaN' = HasNaNHand(results)
  /\ noHandRun' = IF onResultsCallback /\ Len(results.multiHandLandmarks) = 0
                  THEN Min(noHandRun + 1, MaxRun)
                  ELSE 0
  /\ IF NoCallback(onResultsCallback)
     THEN \* if (!this.onResultsCallback) return
          /\ received' = <<>>
          /\ thrown' = "none"
          /\ steady' = SteadyOff
          /\ UNCHANGED <<gestureBuffer, lastGestureTime, emitTimes>>
     ELSE IF Len(results.multiHandLandmarks) > 0
     THEN LET landmarks == FirstHand(results)
          IN  IF classifyThrows(landmarks)
              THEN \* the TypeError leaves processResults; if the tracker
                   \* passes it on to hands.send, detectGesture reports null
                   /\ received' \in {<<>>, <<NullResult>>}
                   /\ thrown' = "TypeError"
                   /\ steady' = SteadyOff
                   /\ UNCHANGED <<gestureBuffer, lastGestureTime, emitTimes>>
              ELSE \* classifyGesture(handLandmarks, handedness), from the table
                   \E gestureType \in {FrameKind(results)} :
                   \E buffer \in {PushGesture(rev, gestureBuffer, gestureType)} :
                   \E consistentGesture \in {getMostFrequentGesture(rev, buffer)} :
                   LET emit == /\ consistentGesture # NoGesture
                               /\ CooldownElapsed(rev, now, lastGestureTime)
                   IN  /\ thrown' = "none"
                       /\ IF IsBuffered(gestureType)
                          THEN /\ gestureBuffer' = buffer
                               /\ steady' = SteadyAfter(gestureType,
                                              IF emit THEN consistentGesture
                                              ELSE NoGesture)
                               /\ IF emit
                                  THEN /\ lastGestureTime' = now
                                       /\ received' =
                                            <<GestureResult(rev, consistentGesture,
                                                            landmarks)>>
                                       /\ emitTimes' = LogEmission
                                  ELSE /\ received' = <<>>
                                       /\ UNCHANGED <<lastGestureTime, emitTimes>>
                          ELSE /\ received' = <<>>
                               /\ steady' = SteadyOff
                               /\ UNCHANGED <<gestureBuffer, lastGestureTime,
                                              emitTimes>>
     ELSE \* No hands detected
          /\ gestureBuffer' = ClearedBuffer(gestureBuffer)
          /\ lastGestureTime' = KeptGestureTime(lastGestureTime)
          /\ received' = <<NullResult>>
          /\ thrown' = "none"
          /\ steady' = SteadyOff
          /\ UNCHANGED emitTimes

Next ==
  \/ Tick
  \/ \E ok \in BOOLEAN : Initialize(ok)
  \/ DetectGesture
  \/ Destroy
  \/ \E results \in TrackerResults : ProcessResults(results)

Spec == Init /\ [][Next]_vars

(***************************************************************************)
(* The recognizer as the detector component drives it: isDetecting,        *)
(* hasCamera and modelReady change, the effect on them starts and stops    *)
(* the polling timer, the session is reset, and while the timer is         *)
(* registered a frame is sent to the recognizer every TickMs.              *)
(***************************************************************************)
\* variant: startDetection does not test detectionIntervalRef.current
StartDetection_NoTest ==
  /\ isDetecting /\ hasCamera /\ modelReady
  /\ effectSaw' = EffectDeps
  /\ detectionInterval' = TRUE
  /\ timers' = timers + 1
  /\ lastSessionOp' = "none"
  /\ UNCHANGED <<rev, isInitialized, onResultsCallback, gestureBuffer,
                 lastGestureTime, now, inFlight, lastFrame, lastHasNaN,
                 received, thrown, emitTimes, voted, steady, noHandRun,
                 isDetecting, hasCamera, auxVars>>

\* the effect on [isDetecting, hasCamera, modelReady] when all three hold:
\* startDetection(), which sets the interval timer unless the ref holds one.
\* The effect may run again with unchanged values, as it does on mount in
\* strict mode.
StartDetection ==
  /\ isDetecting /\ hasCamera /\ modelReady
  /\ effectSaw' = EffectDeps
  /\ detectionInterval' = TRUE
  /\ timers' = IF ~detectionInterval THEN timers + 1 ELSE timers
  /\ lastSessionOp' = "none"
  /\ UNCHANGED <<rev, isInitialized, onResultsCallback, gestureBuffer,
                 lastGestureTime, now, inFlight, lastFrame, lastHasNaN,
                 received, thrown, emitTimes, voted, steady, noHandRun,
                 isDetecting, hasCamera, auxVars>>

\* the effect when one of the three does not hold: stopDetection(), which
\* clears the timer the ref holds and sets the ref to null
StopDetection ==
  /\ ~(isDetecting /\ hasCamera /\ modelReady)
  /\ effectSaw' = EffectDeps
  /\ detectionInterval' = FALSE
  /\ timers' = IF detectionInterval THEN timers - 1 ELSE timers
  /\ lastSessionOp' = IF detectionInterval THEN "stop" ELSE lastSessionOp
  /\ UNCHANGED <<rev, isInitialized, onResultsCallback, gestureBuffer,
                 lastGestureTime, now, inFlight, lastFrame, lastHasNaN,
                 received, thrown, emitTimes, voted, steady, noHandRun,
                 isDetecting, hasCamera, auxVars>>

\* handleStartDetection: setIsDetecting(true)
HandleStartDetection ==
  /\ ~isDetecting
  /\ isDetecting' = TRUE
  /\ UNCHANGED <<rev, isInitialized, onResultsCallback, gestureBuffer,
                 lastGestureTime, now, inFlight, lastFrame, lastHasNaN,
                 received, thrown, emitTimes, voted, steady, noHandRun,
                 detectionInterval, lastSessionOp, hasCamera, timers,
                 effectSaw, auxVars>>

\* handleStopDetection: setIsDetecting(false)
HandleStopDetection ==
  /\ isDetecting
  /\ isDetecting' = FALSE
  /\ UNCHANGED <<rev, isInitialized, onResultsCallback, gestureBuffer,
                 lastGestureTime, now, inFlight, lastFrame, lastHasNaN,
                 received, thrown, emitTimes, voted, steady, noHandRun,
                 detectionInterval, lastSessionOp, hasCamera, timers,
                 effectSaw, auxVars>>

\* setHasCamera(true) when the video has loaded its metadata,
\* setHasCamera(false) when the camera is refused
SetHasCamera(value) ==
  /\ hasCamera # value
  /\ hasCamera' = value
  /\ UNCHANGED <<rev, isInitialized, onResultsCallback, gestureBuffer,
                 lastGestureTime, now, inFlight, lastFrame, lastHasNaN,
                 received, thrown, emitTimes, voted, steady, noHandRun,
                 detectionInterval, lastSessionOp, isDetecting, timers,
                 effectSaw, auxVars>>

\* handleReset: clears the history and the statistics of the session
HandleReset ==
  /\ lastSessionOp' = "reset"
  /\ UNCHANGED <<rev, isInitialized, onResultsCallback, gestureBuffer,
                 lastGestureTime, now, inFlight, lastFrame, lastHasNaN,
                 received, thrown, emitTimes, voted, steady, noHandRun,
                 detectionInterval, detectorVars, auxVars>>

\* performGestureDetection, the callback of the polling timer
PerformGestureDetection ==
  /\ detectionInterval
  /\ DetectGesture

\* what the tracker sees during the session: a pointing right hand or no hand
SessionResults ==
  {results \in TrackerResults :
     \/ Len(results.multiHandLandmarks) = 0
     \/ FirstHand(results) = PointingPose /\ results.label = "Right"}

SessionNext ==
  \/ Tick
  \/ \E ok \in BOOLEAN : Initialize(ok)
  \/ HandleStartDetection
  \/ HandleStopDetection
  \/ \E value \in BOOLEAN : SetHasCamera(value)
  \/ StartDetection
  \/ StopDetection
  \/ HandleReset
  \/ PerformGestureDetection
  \/ \E results \in SessionResults : ProcessResults(results)

SpecSession == Init /\ [][SessionNext]_vars

(***************************************************************************)
(* A sustained gesture: the detection loop keeps sending frames, the       *)
(* tracker answers each of them with a hand of one and the same concrete   *)
(* label, and time keeps advancing.                                        *)
(***************************************************************************)
SustainedFrame ==
  \E results \in TrackerResults :
    /\ FrameKind(results) \in ConcreteLabels
    /\ gestureBuffer # <<>> => FrameKind(results) = gestureBuffer[1]
    /\ ProcessResults(results)

SustainedNext ==
  \/ Tick
  \/ \E ok \in BOOLEAN : Initialize(ok)
  \/ DetectGesture
  \/ SustainedFrame

SpecSustained ==
  /\ Init
  /\ [][SustainedNext]_vars
  /\ WF_vars(Tick)
  /\ WF_vars(DetectGesture)
  /\ WF_vars(SustainedFrame)

(***************************************************************************)
(* Two recognizers side by side.  The second instance runs the same code   *)
(* on its own fields; both read the same clock.                            *)
(***************************************************************************)
\* variant: gestureBuffer is a static field, shared by the instances
BufferOfFirst_Static(own, other) == other

\* this.gestureBuffer of the first instance after the second instance
\* assigned its gestureBuffer: the field belongs to the instance
BufferOfFirst(own, other) == own

\* initialize() and detectGesture(video, callback) on the second instance,
\* answered by the tracker at once
PeerDetectGesture ==
  /\ peer' = [peer EXCEPT !.isInitialized = TRUE, !.onResultsCallback = TRUE]
  /\ peer' # peer
  /\ UNCHANGED <<rev, isInitialized, onResultsCallback, gestureBuffer,
                 lastGestureTime, now, inFlight, lastFrame, lastHasNaN,
                 received, thrown, emitTimes, voted, steady, noHandRun,
                 sessionVars, frame, gesture, mirrored, confVars>>

\* processResults(results) on the second instance
PeerProcessResults(results) ==
  /\ peer.onResultsCallback
  /\ Len(results.multiHandLandmarks) > 0 => ~classifyThrows(FirstHand(results))
  /\ IF Len(results.multiHandLandmarks) > 0
     THEN \E gestureType \in {FrameKind(results)} :
          \E buffer \in {PushGesture(rev, peer.gestureBuffer, gestureType)} :
          \E consistentGesture \in {getMostFrequentGesture(rev, buffer)} :
          LET emit == /\ consistentGesture # NoGesture
                      /\ CooldownElapsed(rev, now, peer.lastGestureTime)
          IN  IF IsBuffered(gestureType)
              THEN peer' =
                     [peer EXCEPT
                        !.gestureBuffer = buffer,
                        !.lastGestureTime = IF emit THEN now ELSE @,
                        !.received =
                          IF emit
                          THEN <<GestureResult(rev, consistentGesture,
                                               FirstHand(results))>>
                          ELSE <<>>]
              ELSE peer' = [peer EXCEPT !.received = <<>>]
     ELSE peer' = [peer EXCEPT !.gestureBuffer = ClearedBuffer(@),
                               !.received = <<NullResult>>]
  /\ gestureBuffer' = BufferOfFirst(gestureBuffer, peer'.gestureBuffer)
  /\ UNCHANGED <<rev, isInitialized, onResultsCallback,
                 lastGestureTime, now, inFlight, lastFrame, lastHasNaN,
                 received, thrown, emitTimes, voted, steady, noHandRun,
                 sessionVars, frame, gesture, mirrored, confVars>>

\* the clock when the two recognizers are constructed
TwoStartTime == MaxTime - CooldownSimplified - TickMs

TwoInit ==
  /\ rev \in Revisions
  /\ isInitialized = FALSE
  /\ onResultsCallback = FALSE
  /\ gestureBuffer = <<>>
  /\ lastGestureTime = 0
  /\ now = TwoStartTime
  /\ inFlight = 0
  /\ lastFrame = "none"
  /\ lastHasNaN = FALSE
  /\ received = <<>>
  /\ thrown = "none"
  /\ emitTimes = <<>>
  /\ voted = "pending"
  /\ steady = SteadyOff
  /\ noHandRun = 0
  /\ detectionInterval = FALSE
  /\ lastSessionOp = "none"
  /\ DetectorOff
  /\ AuxOff

TwoNext ==
  \/ Tick
  \/ \E ok \in BOOLEAN : Initialize(ok)
  \/ DetectGesture
  \/ \E results \in SessionResults : ProcessResults(results)
  \/ PeerDetectGesture
  \/ \E results \in SessionResults : PeerProcessResults(results)

SpecTwo == TwoInit /\ [][TwoNext]_vars

(***************************************************************************)
(* The classifier on its own: classifyGesture applied to hands of 21       *)
(* landmarks in which every finger and the thumb take several positions,   *)
(* and to the mirror images of these hands.                                *)
(***************************************************************************)
\* the y of MCP, PIP and tip of a finger (index..pinky): straight up; tip
\* below the PIP; tip above PIP and MCP with the PIP below the MCP; tip
\* above the PIP but not above the MCP; tip level with the PIP
FingerShapes ==
  [up |-> <<60, 50, 40>>, down |-> <<60, 50, 55>>, bent |-> <<50, 55, 45>>,
   low |-> <<40, 50, 45>>, level |-> <<60, 50, 50>>]

IndexShapes == {"up", "down", "bent", "low", "level"}
OtherShapes == {"up", "down", "bent", "low"}

\* the landmarks MCP, PIP, DIP, tip of a finger at column px
Finger(px, shape) ==
  LET ys == FingerShapes[shape]
  IN  <<Pt(px, ys[1]), Pt(px, ys[2]), Pt(px, ys[2]), Pt(px, ys[3])>>

\* positions of the thumb tip; thumb MCP at (44, 70), IP at (42, 62), index
\* MCP and index tip at x = 40
ThumbTips ==
  {<<42, 58>>, <<50, 50>>, <<30, 50>>, <<50, 71>>, <<50, 65>>, <<45, 50>>,
   <<43, 42>>, <<46, 42>>, <<38, 42>>}

Hand(thumbTip, index, middle, ring, pinky) ==
  <<Pt(50, 90), Pt(46, 80), Pt(44, 70), Pt(42, 62), Pt(thumbTip[1], thumbTip[2])>>
    \o Finger(40, index) \o Finger(50, middle)
    \o Finger(60, ring) \o Finger(70, pinky)

ClassifierHands ==
  {Hand(t, i, m, r, p) :
     t \in ThumbTips, i \in IndexShapes, m \in OtherShapes,
     r \in OtherShapes, p \in OtherShapes}

ClassifierFrames == [landmarks : ClassifierHands, handedness : {"Left", "Right"}]

\* the frame seen in a mirror: every x becomes 1 - x, the hand changes side
MirrorFrame(f) ==
  [landmarks |-> [i \in 1..Len(f.landmarks) |->
                    [f.landmarks[i] EXCEPT !.x = Sub(100, @)]],
   handedness |-> IF f.handedness = "Right" THEN "Left" ELSE "Right"]

ClassifyInit ==
  /\ rev \in Revisions
  /\ isInitialized = TRUE
  /\ onResultsCallback = TRUE
  /\ gestureBuffer = <<>>
  /\ lastGestureTime = 0
  /\ now = StartTime
  /\ inFlight = 0
  /\ lastFrame = "none"
  /\ lastHasNaN = FALSE
  /\ received = <<>>
  /\ thrown = "none"
  /\ emitTimes = <<>>
  /\ voted = "pending"
  /\ steady = SteadyOff
  /\ noHandRun = 0
  /\ detectionInterval = FALSE
  /\ lastSessionOp = "none"
  /\ DetectorOff
  /\ frame \in ClassifierFrames
  /\ gesture = "pending"
  /\ mirrored = "none"
  /\ peer = NewRecognizer
  /\ ConfOff

\* const gestureType = this.classifyGesture(handLandmarks, handedness)
Classify ==
  /\ gesture = "pending"
  /\ gesture' = classifyGesture(rev, frame.landmarks, frame.handedness)
  /\ UNCHANGED <<rev, isInitialized, onResultsCallback, gestureBuffer,
                 lastGestureTime, now, inFlight, lastFrame, lastHasNaN,
                 received, thrown, emitTimes, voted, steady, noHandRun,
                 sessionVars, frame, mirrored, peer, confVars>>

\* classifyGesture applied to the mirror image of a classified frame
ClassifyMirrored ==
  /\ gesture # "pending"
  /\ mirrored = "none"
  /\ frame' = MirrorFrame(frame)
  /\ mirrored' = gesture
  /\ gesture' = classifyGesture(rev, frame'.landmarks, frame'.handedness)
  /\ UNCHANGED <<rev, isInitialized, onResultsCallback, gestureBuffer,
                 lastGestureTime, now, inFlight, lastFrame, lastHasNaN,
                 received, thrown, emitTimes, voted, steady, noHandRun,
                 sessionVars, peer, confVars>>

ClassifyNext ==
  \/ Classify
  \/ ClassifyMirrored

SpecClassify == ClassifyInit /\ [][ClassifyNext]_vars

(***************************************************************************)
(* calculateConfidence and the sensitivity filter of the detector on their *)
(* own.                                                                    *)
(***************************************************************************)
\* the two revisions of the class and the first revision of part_003, whose
\* calculateConfidence differs from both
ConfidenceRevisions == Revisions \cup {"first"}

\* <input type="range" min="0.3" max="0.9" step="0.1">, in tenths
SensitivityValues == 3..9

Pt3(px, py, pz) == [x |-> px, y |-> py, z |-> pz]

\* a frame of 21 landmarks of which the first v are inside the band
\* 0.1 < x, y < 0.9 and the others on its border, and of which the first s
\* are at depth 0 and the others at depth 0.25
ConfidenceFrame(v, s) ==
  [i \in 1..(MaxLandmarkIndex + 1) |->
     Pt3(IF i <= v THEN 50 ELSE 10, 50, IF i <= s THEN 0 ELSE 25)]

ConfidenceFrames ==
  {[landmarks |-> ConfidenceFrame(v, s), handedness |-> "Right"] :
     v \in 0..(MaxLandmarkIndex + 1), s \in 0..(MaxLandmarkIndex + 1)}

\* the landmarks that are changed: the wrist, the middle DIP, the pinky tip
ChangedIndices == {1, 11, 21}

\* what a landmark is changed to: centred and shallow, on the border, at
\* the depth bound of the shipped revision, x not a number, z not a number,
\* far out of depth
ChangedPoints ==
  {Pt3(50, 50, 0), Pt3(50, 90, 0), Pt3(50, 50, 0 - 20), Pt3(NaN, 50, 10),
   Pt3(50, 50, NaN), Pt3(50, 50, 105)}

ConfidenceInit ==
  /\ rev \in ConfidenceRevisions
  /\ isInitialized = TRUE
  /\ onResultsCallback = TRUE
  /\ gestureBuffer = <<>>
  /\ lastGestureTime = 0
  /\ now = StartTime
  /\ inFlight = 0
  /\ lastFrame = "none"
  /\ lastHasNaN = FALSE
  /\ received = <<>>
  /\ thrown = "none"
  /\ emitTimes = <<>>
  /\ voted = "pending"
  /\ steady = SteadyOff
  /\ noHandRun = 0
  /\ detectionInterval = FALSE
  /\ lastSessionOp = "none"
  /\ DetectorOff
  /\ frame \in ConfidenceFrames
  /\ gesture = "pending"
  /\ mirrored = "none"
  /\ peer = NewRecognizer
  /\ sensitivity \in SensitivityValues
  /\ confidence = NoConfidence
  /\ forwarded = FALSE
  /\ previous = NoPrevious

\* if (result && result.confidence >= (sensitivity / 100)) onGestureDetected
Forwarded(value, landmarks) ==
  PassesSensitivity(value, Len(landmarks), sensitivity)

\* confidence: this.calculateConfidence(handLandmarks), passed to the callback
Estimate ==
  /\ confidence = NoConfidence
  /\ confidence' = calculateConfidence(rev, frame.landmarks)
  /\ forwarded' = Forwarded(confidence', frame.landmarks)
  /\ UNCHANGED <<rev, isInitialized, onResultsCallback, gestureBuffer,
                 lastGestureTime, now, inFlight, lastFrame, lastHasNaN,
                 received, thrown, emitTimes, voted, steady, noHandRun,
                 sessionVars, frame, gesture, mirrored, peer, sensitivity,
                 previous>>

\* calculateConfidence on the frame with landmark i replaced by p
ChangeLandmark(i, p) ==
  /\ confidence # NoConfidence
  /\ previous = NoPrevious
  /\ frame.landmarks[i] # p
  /\ previous' = [landmarks |-> frame.landmarks, confidence |-> confidence]
  /\ frame' = [frame EXCEPT !.landmarks[i] = p]
  /\ confidence' = calculateConfidence(rev, frame'.landmarks)
  /\ forwarded' = Forwarded(confidence', frame'.landmarks)
  /\ UNCHANGED <<rev, isInitialized, onResultsCallback, gestureBuffer,
                 lastGestureTime, now, inFlight, lastFrame, lastHasNaN,
                 received, thrown, emitTimes, voted, steady, noHandRun,
                 sessionVars, gesture, mirrored, peer, sensitivity>>

ConfidenceNext ==
  \/ Estimate
  \/ \E i \in ChangedIndices, p \in ChangedPoints : ChangeLandmark(i, p)

SpecConfidence == ConfidenceInit /\ [][ConfidenceNext]_vars

(***************************************************************************)
(* The vote on its own: getMostFrequentGesture and the push of              *)
(* processResults applied to every buffer within the capacity.             *)
(***************************************************************************)
RECURSIVE SeqsUpTo(_, _)
SeqsUpTo(S, n) ==
  IF n = 0 THEN {<<>>}
  ELSE LET shorter == SeqsUpTo(S, n - 1)
       IN  shorter \cup {Append(q, g) : q \in shorter, g \in S}

VoteInit ==
  /\ rev \in Revisions
  /\ isInitialized = TRUE
  /\ onResultsCallback = TRUE
  /\ gestureBuffer \in SeqsUpTo(ConcreteLabels, BufferCapacity(rev))
  /\ lastGestureTime = 0
  /\ now = StartTime
  /\ inFlight = 0
  /\ lastFrame = "none"
  /\ lastHasNaN = FALSE
  /\ received = <<>>
  /\ thrown = "none"
  /\ emitTimes = <<>>
  /\ voted = "pending"
  /\ steady = SteadyOff
  /\ noHandRun = 0
  /\ detectionInterval = FALSE
  /\ lastSessionOp = "none"
  /\ DetectorOff
  /\ AuxOff

\* const consistentGesture = this.getMostFrequentGesture()
Vote ==
  /\ voted' = getMostFrequentGesture(rev, gestureBuffer)
  /\ UNCHANGED <<rev, isInitialized, onResultsCallback, gestureBuffer,
                 lastGestureTime, now, inFlight, lastFrame, lastHasNaN,
                 received, thrown, emitTimes, steady, noHandRun, sessionVars, auxVars>>

\* the push of a label followed by the vote
PushAndVote(gestureType) ==
  /\ gestureBuffer' = PushGesture(rev, gestureBuffer, gestureType)
  /\ voted' = getMostFrequentGesture(rev, gestureBuffer')
  /\ lastFrame' = gestureType
  /\ UNCHANGED <<rev, isInitialized, onResultsCallback, lastGestureTime, now,
                 inFlight, lastHasNaN, received, thrown, emitTimes, steady,
                 noHandRun, sessionVars, auxVars>>

VoteNext ==
  \/ Vote
  \/ \E gestureType \in ConcreteLabels : PushAndVote(gestureType)

SpecVote == VoteInit /\ [][VoteNext]_vars

TypeOK ==
  /\ rev \in ConfidenceRevisions
  /\ isInitialized \in BOOLEAN
  /\ onResultsCallback \in BOOLEAN
  /\ gestureBuffer \in Seq(ConcreteLabels \cup {"unknown"})
  /\ lastGestureTime \in 0..MaxTime
  /\ now \in StartTime..MaxTime
  /\ inFlight \in 0..MaxInFlight
  /\ sensitivity \in SensitivityValues
  /\ isDetecting \in BOOLEAN
  /\ hasCamera \in BOOLEAN
  /\ timers \in 0..1

(***************************************************************************)
(* Properties.                                                             *)
(***************************************************************************)
\* a step in which the tracker delivers the results of one frame
FrameStep == inFlight' = inFlight - 1

\* the callback received a gesture event for the last delivered result
EventReceived(rcv) == \E i \in 1..Len(rcv) : rcv[i] # NullResult

\* the last k entries of s
LastK(s, k) == SubSeq(s, Len(s) - Min(Len(s), k) + 1, Len(s))

\* C1 (as stated): after a frame with a hand classified as unknown the
\* buffer is empty and no event was emitted.
C1_UnknownClearsBuffer ==
  lastFrame = "unknown" => gestureBuffer = <<>> /\ ~EventReceived(received)

\* What processResults does on such a frame instead: the buffer and the time
\* of the last emission stay as they were and no callback is called, so the
\* labels buffered before the frame still count in later votes.
UnknownKeepsBuffer ==
  [][FrameStep /\ lastFrame' = "unknown"
       => /\ gestureBuffer' = gestureBuffer
          /\ lastGestureTime' = lastGestureTime
          /\ received' = <<>>]_vars

UnknownKeepsBufferWitness ==
  /\ lastFrame = "unknown"
  /\ Len(gestureBuffer) >= RequiredCount(rev)
  /\ getMostFrequentGesture(rev, gestureBuffer) # NoGesture

\* C2: two successive emitted events are more than the cooldown apart.
C2_Debounce ==
  Len(emitTimes) = 2 => emitTimes[2] - emitTimes[1] > Cooldown(rev)

C2_Witness ==
  /\ Len(emitTimes) = 2
  /\ emitTimes[2] - emitTimes[1] = Cooldown(rev) + TickMs

\* C3: getMostFrequentGesture returns a label exactly when that label is a
\* most frequent one of the buffer and occurs at least the required number
\* of times, and returns no candidate exactly when no label occurs that
\* often; [A, B, A] gives A and [A, B, C] gives none with 2 of 3.
C3_MajorityVote ==
  voted # "pending"
    => LET f(g) == Frequency(gestureBuffer, g)
       IN  /\ \A g \in ConcreteLabels :
                (voted = g) <=> /\ f(g) >= RequiredCount(rev)
                                /\ \A h \in ConcreteLabels : f(h) <= f(g)
           /\ (voted = NoGesture)
                <=> \A g \in ConcreteLabels : f(g) < RequiredCount(rev)
           /\ (rev = "simplified" /\ gestureBuffer = <<"fist", "pointing", "fist">>)
                => voted = "fist"
           /\ (rev = "simplified" /\ gestureBuffer = <<"fist", "pointing", "peace">>)
                => voted = NoGesture

C3_Witness ==
  /\ rev = "simplified"
  /\ gestureBuffer = <<"fist", "pointing", "fist">>
  /\ voted = "fist"

\* C4: a frame without a detected hand empties the buffer, and the callback
\* registered at that time is called with null and with nothing else.
C4_NoHandClears ==
  [][FrameStep /\ lastFrame' = "nohand"
       => /\ gestureBuffer' = <<>>
          /\ ~EventReceived(received')
          /\ onResultsCallback => received' = <<NullResult>>]_vars

C4_Witness ==
  /\ lastFrame = "nohand"
  /\ received = <<NullResult>>
  /\ Len(emitTimes) > 0

\* C5: unknown is never the label of an emitted event and is never stored
\* in the buffer.
C5_UnknownNeverEmittedNorBuffered ==
  /\ \A i \in 1..Len(gestureBuffer) : gestureBuffer[i] # "unknown"
  /\ \A i \in 1..Len(received) : received[i].type # "unknown"

C5_Witness ==
  /\ lastFrame = "unknown"
  /\ gestureBuffer # <<>>
  /\ Len(emitTimes) > 0

\* C6: on a frame with a concrete label an event is emitted exactly when the
\* buffer after the push has a candidate and more than the cooldown has
\* passed since the last emission; the event is the only one of the frame
\* and sets lastGestureTime to the current time; without an event
\* lastGestureTime stays.
C6_EmissionRule ==
  [][FrameStep /\ lastFrame' \in ConcreteLabels
       => LET candidate == getMostFrequentGesture(rev, gestureBuffer')
          IN  /\ (received' # <<>>)
                   <=> /\ candidate # NoGesture
                       /\ now - lastGestureTime > Cooldown(rev)
              /\ received' # <<>>
                   => /\ Len(received') = 1
                      /\ received'[1].type = candidate
                      /\ lastGestureTime' = now
              /\ received' = <<>> => lastGestureTime' = lastGestureTime]_vars

\* a candidate exists but the frame is inside the cooldown
C6_Witness ==
  /\ lastFrame \in ConcreteLabels
  /\ received = <<>>
  /\ getMostFrequentGesture(rev, gestureBuffer) # NoGesture
  /\ now - lastGestureTime = Cooldown(rev)

\* C7: the buffer never holds more than its capacity, and a frame with a
\* concrete label appends the label and keeps the most recent entries, as
\* many as the capacity.
C7_RollingWindow ==
  [][/\ Len(gestureBuffer') <= BufferCapacity(rev)
     /\ FrameStep /\ onResultsCallback /\ lastFrame' \in ConcreteLabels
          => gestureBuffer' =
               LastK(Append(gestureBuffer, lastFrame'), BufferCapacity(rev))]_vars

\* more labels than the capacity were pushed since the recognizer was made
C7_Witness ==
  /\ steady.n > BufferCapacity(rev)
  /\ Len(gestureBuffer) = BufferCapacity(rev)

\* C8: of the first five frames of a fresh recognizer, all with the same
\* concrete label and TickMs apart, exactly one emits an event: the frame
\* at which the label reaches the required count (the 2nd or the 3rd).
C8_EndToEnd ==
  steady.n \in 1..5
    => /\ steady.n < RequiredCount(rev) => steady.emits = <<>>
       /\ steady.n >= RequiredCount(rev)
            => steady.emits =
                 <<[frame |-> IF rev = "simplified" THEN 2 ELSE 3,
                    type |-> steady.label]>>

C8_Witness ==
  /\ steady.n = 5
  /\ steady.label = "pointing"
  /\ Len(steady.emits) = 1

\* the times the clock of the model shows
ClockTimes == {t \in StartTime..MaxTime : (t - StartTime) % TickMs = 0}

\* C9: while frames of one concrete label keep arriving and time advances,
\* every event that leaves room for the cooldown before the clock stops is
\* followed by another event of that label, and after an event a frame emits
\* exactly when it arrives more than the cooldown after that event.
C9_SustainedGestureEmitsAgain ==
  /\ \A t \in ClockTimes :
       (/\ Len(emitTimes) > 0
        /\ emitTimes[Len(emitTimes)] = t
        /\ t + Cooldown(rev) + TickMs <= MaxTime)
         ~> (/\ Len(emitTimes) = 2
             /\ emitTimes[2] > t
             /\ emitTimes[1] = t
             /\ received # <<>>
             /\ received[1].type = gestureBuffer[1])
  /\ [][FrameStep /\ Len(emitTimes) > 0
         => ((received' # <<>>)
               <=> now - emitTimes[Len(emitTimes)] > Cooldown(rev))]_vars

C9_Witness ==
  /\ Len(emitTimes) = 2
  /\ emitTimes[2] = now
  /\ received # <<>>
  /\ received[1].type = gestureBuffer[1]
  /\ \A i \in 1..Len(gestureBuffer) : gestureBuffer[i] = gestureBuffer[1]
  /\ Len(gestureBuffer) = BufferCapacity(rev)

\* C10 (as stated): a frame with fewer than 21 landmarks ends without an
\* exception, emits no event and leaves the buffer empty.
C10_MalformedRejected ==
  lastFrame = "malformed"
    => /\ thrown # "TypeError"
       /\ ~EventReceived(received)
       /\ gestureBuffer = <<>>

\* C11 (as stated): a frame of 21 landmarks with a NaN coordinate is not
\* classified as a concrete label, pushes nothing, emits no event and leaves
\* the buffer empty, like a frame without a hand.
C11_NaNRejected ==
  lastHasNaN /\ lastFrame # "malformed"
    => /\ lastFrame \notin ConcreteLabels
       /\ ~EventReceived(received)
       /\ gestureBuffer = <<>>

\* What processResults does on such a frame instead: the comparisons with
\* NaN are false, the finger counts as down, and the label is pushed and
\* voted on like that of any other frame.
NaNFrameClassified ==
  [][FrameStep /\ onResultsCallback /\ lastHasNaN' /\ lastFrame' = "fist"
       => /\ gestureBuffer' =
               LastK(Append(gestureBuffer, "fist"), BufferCapacity(rev))
          /\ (received' # <<>>)
               <=> /\ getMostFrequentGesture(rev, gestureBuffer') # NoGesture
                   /\ CooldownElapsed(rev, now, lastGestureTime)]_vars

NaNFrameEmits ==
  /\ lastHasNaN
  /\ EventReceived(received)
  /\ received[1].type = "fist"
  /\ \A i \in 1..Len(gestureBuffer) : gestureBuffer[i] = "fist"

\* C12: a frame without a hand leaves the buffer empty and the time of the
\* last emission as it was, and a further such frame right after it leaves
\* the recognizer in exactly the state the first one produced.
C12_HandLossIdempotent ==
  [][FrameStep /\ onResultsCallback /\ lastFrame' = "nohand"
       => /\ gestureBuffer' = <<>>
          /\ lastGestureTime' = lastGestureTime
          /\ noHandRun >= 1
               => <<gestureBuffer', lastGestureTime', isInitialized',
                    onResultsCallback'>>
                    = <<gestureBuffer, lastGestureTime, isInitialized,
                        onResultsCallback>>]_vars

\* two frames without a hand in a row, after an event was emitted
C12_Witness ==
  /\ noHandRun = MaxRun
  /\ lastFrame = "nohand"
  /\ lastGestureTime > 0
  /\ gestureBuffer = <<>>

\* C13 (as stated): when detection was stopped or the session was reset,
\* the buffer is empty and there is no last emission, so that the next run
\* starts without a label or a cooldown carried over.
C13_SessionResetsStabilizer ==
  lastSessionOp \in {"stop", "reset"}
    => gestureBuffer = <<>> /\ lastGestureTime = 0

\* the fields of the first instance, and what its callback received
firstInstance ==
  <<isInitialized, onResultsCallback, gestureBuffer, lastGestureTime, received>>

\* C14: an operation on one recognizer leaves the buffer, the time of the
\* last emission and every other field of the other recognizer unchanged
\* and calls no callback of the other recognizer.
C14_InstanceIsolation ==
  [][/\ peer' # peer => firstInstance' = firstInstance
     /\ firstInstance' # firstInstance => peer' = peer
     /\ FrameStep => peer' = peer]_vars

\* both recognizers hold labels and emitted, at different times
C14_Witness ==
  /\ peer.gestureBuffer # <<>>
  /\ gestureBuffer # <<>>
  /\ Len(peer.gestureBuffer) # Len(gestureBuffer)
  /\ peer.lastGestureTime > 0
  /\ lastGestureTime > 0
  /\ peer.lastGestureTime # lastGestureTime

\* the finger-state vector of the frame given to the classifier
FrameFingers == FingersUp(rev, frame.landmarks, frame.handedness)

\* the number of fingers that are up in a finger-state vector
FingerCount(f) == Cardinality({i \in 1..Len(f) : f[i] = 1})

\* the joints of finger k (1 = index .. 4 = pinky) of the frame
TipOf(k) == LM(frame.landmarks, 4 * k + 4)
PipOf(k) == LM(frame.landmarks, 4 * k + 2)
McpOf(k) == LM(frame.landmarks, 4 * k + 1)

\* C15: a frame whose finger-state vector has no finger up is classified
\* fist and one with all five fingers up open_palm, whatever the
\* handedness and the positions of the landmarks.
C15_FistAndOpenPalm ==
  gesture # "pending"
    => /\ FingerCount(FrameFingers) = 0 => gesture = "fist"
       /\ FingerCount(FrameFingers) = 5 => gesture = "open_palm"

\* the mirror image of an open palm: a left hand with five fingers up
C15_Witness ==
  /\ gesture = "open_palm"
  /\ FingerCount(FrameFingers) = 5
  /\ frame.handedness = "Left"
  /\ mirrored = "open_palm"

\* C16: the mirror image of a frame (every x replaced by 1 - x, handedness
\* switched) gets the label of the frame; a right-hand thumbs_up stays
\* thumbs_up.
C16_MirrorSymmetry ==
  mirrored # "none" => gesture = mirrored

C16_Witness ==
  /\ rev = "palmFacing"
  /\ mirrored = "thumbs_up"
  /\ gesture = "thumbs_up"
  /\ frame.handedness = "Left"

\* the verticality check: the thumb tip is above the thumb MCP and the index
\* MCP and more than 0.05 away from the index MCP in x
ThumbIsVertical ==
  LET thumbTip == LM(frame.landmarks, 4)
      thumbMcp == LM(frame.landmarks, 2)
      indexMcp == LM(frame.landmarks, 5)
      dx == thumbTip.x - indexMcp.x
  IN  /\ thumbTip.y < thumbMcp.y
      /\ thumbTip.y < indexMcp.y
      /\ (dx > 5 \/ dx < 0 - 5)

\* C17 (as stated): with the thumb the only finger up the label is
\* thumbs_up exactly when the verticality check passes, and unknown when
\* it fails.
C17_ThumbsUpIffVertical ==
  gesture # "pending" /\ FrameFingers[1] = 1 /\ FingerCount(FrameFingers) = 1
    => /\ (gesture = "thumbs_up") <=> ThumbIsVertical
       /\ ~ThumbIsVertical => gesture = "unknown"

\* C18 (as stated): each of index, middle, ring and pinky is up exactly
\* when its tip is above its PIP and its PIP above its MCP, both strictly.
C18_FingerUpIffOrdered ==
  frame # NoFrame
    => \A k \in 1..4 :
         (FrameFingers[k + 1] = 1)
           <=> (TipOf(k).y < PipOf(k).y /\ PipOf(k).y < McpOf(k).y)

\* C19 (as stated): the thumb is up for a right hand exactly when the thumb
\* tip is right of the thumb IP, for a left hand exactly when it is left of
\* it, so that the other handedness gives the other thumb state whenever
\* the two x differ.
C19_ThumbFollowsHandedness ==
  frame # NoFrame
    => LET thumbTip == LM(frame.landmarks, 4)
           thumbIp == LM(frame.landmarks, 3)
           other == IF frame.handedness = "Right" THEN "Left" ELSE "Right"
       IN  /\ (FrameFingers[1] = 1)
                <=> IF frame.handedness = "Right"
                    THEN thumbTip.x > thumbIp.x
                    ELSE thumbTip.x < thumbIp.x
           /\ thumbTip.x # thumbIp.x
                => FingersUp(rev, frame.landmarks, other)[1] # FrameFingers[1]

\* the finger-state vectors the rules before ok_sign are about: no finger,
\* five fingers, only the index, only the thumb, index and middle, index
\* and pinky
CountRuleVectors ==
  {<<0, 0, 0, 0, 0>>, <<1, 1, 1, 1, 1>>, <<0, 1, 0, 0, 0>>, <<1, 0, 0, 0, 0>>,
   <<0, 1, 1, 0, 0>>, <<0, 1, 0, 0, 1>>}

\* thumb tip and index tip are closer than the threshold of the revision
\* (0.08 or 0.05) and at least two of middle, ring and pinky have the tip
\* above the PIP
OkGeometry ==
  LET thumbTip == LM(frame.landmarks, 4)
      indexTip == LM(frame.landmarks, 8)
      dx == thumbTip.x - indexTip.x
      dy == thumbTip.y - indexTip.y
      threshold == IF rev = "simplified" THEN 8 ELSE 5
  IN  /\ dx * dx + dy * dy < threshold * threshold
      /\ Cardinality({k \in 2..4 : TipOf(k).y < PipOf(k).y}) >= 2

\* C20 (as stated): a frame that none of the rules for fist, open_palm,
\* pointing, thumbs_up, peace and rock_on is about gets ok_sign exactly when
\* the tips of thumb and index are closer than the threshold and at least
\* two of middle, ring and pinky have the tip above the PIP; otherwise it
\* gets unknown.
C20_OkSignRule ==
  gesture # "pending" /\ FrameFingers \notin CountRuleVectors
    => gesture = IF OkGeometry THEN "ok_sign" ELSE "unknown"

\* C21: the finger-state vector (0,1,0,0,0) is classified pointing,
\* (0,1,1,0,0) peace and (0,1,0,0,1) rock_on, whatever the positions of the
\* landmarks that give the vector and whatever the handedness; the ok_sign
\* test does not change these labels.
C21_DecisionTable ==
  gesture # "pending"
    => /\ FrameFingers = <<0, 1, 0, 0, 0>> => gesture = "pointing"
       /\ FrameFingers = <<0, 1, 1, 0, 0>> => gesture = "peace"
       /\ FrameFingers = <<0, 1, 0, 0, 1>> => gesture = "rock_on"

\* a left hand with index and pinky up whose thumb tip touches the index
\* tip and whose middle tip is above its PIP, classified rock_on
C21_Witness ==
  /\ gesture = "rock_on"
  /\ FrameFingers = <<0, 1, 0, 0, 1>>
  /\ OkGeometry
  /\ frame.handedness = "Left"

\* the rules of classifyGesture whose own condition holds on the frame,
\* each condition taken by itself, without the rules tested before it
RulesHolding ==
  LET f == FrameFingers
      n == FingerCount(f)
      okTest == IF rev = "simplified"
                THEN isOkGestureSimplified(frame.landmarks)
                ELSE f[1] = 1 /\ f[2] = 1 /\ isOkGesture(frame.landmarks)
  IN  {r \in ConcreteLabels :
         \/ r = "fist" /\ n = 0
         \/ r = "open_palm" /\ n = 5
         \/ r = "pointing" /\ f[2] = 1 /\ n = 1
         \/ r = "thumbs_up" /\ f[1] = 1 /\ n = 1
         \/ r = "peace" /\ f[2] = 1 /\ f[3] = 1 /\ n = 2
         \/ r = "rock_on" /\ f[2] = 1 /\ f[5] = 1 /\ n = 2
         \/ r = "ok_sign" /\ okTest}

\* C22 (as stated): on every frame at most one of the conditions of the
\* rules fist, open_palm, pointing, thumbs_up, peace, rock_on and ok_sign
\* holds, so that the label does not depend on the order of the rules.
C22_RulesExclusive ==
  gesture # "pending" => Cardinality(RulesHolding) <= 1

\* the number of landmarks of the frame given to calculateConfidence
FrameSize == Len(frame.landmarks)

\* C23: for every frame of 21 landmarks, whatever the number of landmarks
\* inside the band and the number of shallow ones, calculateConfidence
\* returns a value from 0.5 to 0.95, bounds included.
C23_ConfidenceBounds ==
  confidence # NoConfidence
    => /\ FrameSize = 21
       /\ 50 * FrameSize <= confidence
       /\ confidence <= 95 * FrameSize

\* no landmark inside the band and none shallow: the part_003 revision
\* returns the lower bound
C23_Witness ==
  /\ rev = "palmFacing"
  /\ previous = NoPrevious
  /\ VisibilityScore(frame.landmarks) = 0
  /\ StabilityScore(frame.landmarks, 10) = 0
  /\ confidence = 50 * FrameSize

\* the depth bound and the sum of the two weights of a revision that
\* counts landmarks, the weights in units of 1 / (100 * 21) per landmark
DepthBound == IF rev = "simplified" THEN 20 ELSE 10
WeightSum == IF rev = "simplified" THEN 20 + 10 ELSE 40 + 60

\* the score before Math.max and Math.min
Unclamped(landmarks) ==
  IF rev = "simplified"
  THEN 70 * Len(landmarks) + 20 * VisibilityScore(landmarks)
         + 10 * StabilityScore(landmarks, 20)
  ELSE 60 * StabilityScore(landmarks, 10) + 40 * VisibilityScore(landmarks)

Within(a, b, d) == a - b <= d /\ b - a <= d

\* C24 (as stated): replacing one landmark of a frame changes the number of
\* landmarks inside the band and the number of shallow landmarks by at
\* most one each and the score before clamping by at most the sum of the
\* two weights over 21, and it never takes the returned confidence from
\* its maximum to its minimum or from its minimum to its maximum.
C24_SingleLandmark ==
  previous # NoPrevious
    => /\ rev \in Revisions
            => /\ Within(VisibilityScore(frame.landmarks),
                         VisibilityScore(previous.landmarks), 1)
               /\ Within(StabilityScore(frame.landmarks, DepthBound),
                         StabilityScore(previous.landmarks, DepthBound), 1)
               /\ Within(Unclamped(frame.landmarks),
                         Unclamped(previous.landmarks), WeightSum)
       /\ ~(previous.confidence = 95 * FrameSize /\ confidence = 50 * FrameSize)
       /\ ~(previous.confidence = 50 * FrameSize /\ confidence = 95 * FrameSize)

\* C29: whatever the sensitivity set with the slider, every event of the
\* recognizer passes the filter of the detector and is handed to
\* onGestureDetected.
C29_SensitivityNeverSuppresses ==
  confidence # NoConfidence => forwarded

\* the highest sensitivity and the lowest confidence
C29_Witness ==
  /\ sensitivity = 9
  /\ confidence = 50 * FrameSize
  /\ forwarded

\* C25: the label of an emitted event is the candidate of the buffer after
\* the push of the current frame, a label that occurs in it at least the
\* required number of times; its confidence and its landmarks are those of
\* the current frame, whose own label may be another one.
C25_EventCarriesCandidate ==
  [][FrameStep /\ EventReceived(received')
       => LET event == received'[1]
          IN  /\ event.type = getMostFrequentGesture(rev, gestureBuffer')
              /\ Frequency(gestureBuffer', event.type) >= RequiredCount(rev)
              /\ gestureBuffer'[Len(gestureBuffer')] = lastFrame'
              /\ \E h \in HandednessLabels :
                    classifyGesture(rev, event.landmarks, h) = lastFrame'
              /\ HasNaN(event.landmarks) = lastHasNaN'
              /\ event.confidence = calculateConfidence(rev, event.landmarks)]_vars

\* an event with the label of the majority on a frame with another label
C25_Witness ==
  /\ EventReceived(received)
  /\ lastFrame \in ConcreteLabels
  /\ received[1].type # lastFrame
  /\ gestureBuffer[Len(gestureBuffer)] = lastFrame
  /\ classifyGesture(rev, received[1].landmarks, "Right") = lastFrame

\* the labels that occur in the buffer at least the required number of times
Qualified == {g \in ConcreteLabels : Frequency(gestureBuffer, g) >= RequiredCount(rev)}

\* the labels of the buffer that no other label outnumbers
TopLabels ==
  {g \in Range(gestureBuffer) :
     \A h \in Range(gestureBuffer) :
       Frequency(gestureBuffer, h) <= Frequency(gestureBuffer, g)}

\* the reduce with the other tie-breaking order: on equal counts the key
\* enumerated first wins
FirstKeyWins(buffer, keys) ==
  LET acc[i \in 1..Len(keys)] ==
        IF i = 1 THEN keys[1]
        ELSE IF Frequency(buffer, acc[i - 1]) >= Frequency(buffer, keys[i])
             THEN acc[i - 1] ELSE keys[i]
      mostFrequent == acc[Len(keys)]
  IN  IF Len(buffer) = 0 THEN NoGesture
      ELSE IF Frequency(buffer, mostFrequent) >= RequiredCount(rev)
      THEN mostFrequent ELSE NoGesture

\* C26: in every buffer within the capacity at most one label reaches the
\* required count; the value getMostFrequentGesture returns is the one it
\* would return with the other tie-breaking order, and when two labels tie
\* for the highest count it returns no candidate.
C26_CandidateUnique ==
  /\ Cardinality(Qualified) <= 1
  /\ voted # "pending"
       => /\ voted = FirstKeyWins(gestureBuffer, FrequencyKeys(gestureBuffer))
          /\ Cardinality(TopLabels) > 1 => voted = NoGesture
          /\ voted # NoGesture => Qualified = {voted}

\* a full buffer of the part_003 revision with two labels twice: no candidate
C26_Witness ==
  /\ rev = "palmFacing"
  /\ Len(gestureBuffer) = CapacityPalmFacing
  /\ Cardinality(TopLabels) = 2
  /\ voted = NoGesture

\* C27: a step that leaves the buffer empty, be it a frame without a hand
\* or destroy(), leaves lastGestureTime as it was, and lastGestureTime never
\* returns to 0; an event is emitted only when more than the cooldown has
\* passed since lastGestureTime, whatever happened to the buffer in between,
\* and while lastGestureTime is 0 a frame that gives a candidate emits it at
\* once.
C27_ClearKeepsCooldown ==
  [][/\ gestureBuffer' = <<>> => lastGestureTime' = lastGestureTime
     /\ lastGestureTime > 0 => lastGestureTime' > 0
     /\ FrameStep /\ EventReceived(received')
          => now - lastGestureTime > Cooldown(rev)
     /\ (/\ FrameStep /\ onResultsCallback /\ lastFrame' \in ConcreteLabels
         /\ lastGestureTime = 0
         /\ getMostFrequentGesture(rev, gestureBuffer') # NoGesture)
          => EventReceived(received')]_vars

\* a gesture acquired again after the buffer was emptied: the buffer has
\* just reached the required count, which after an emission it can only do
\* when it was emptied in between, and the candidate is held back because
\* the cooldown since the emission before the loss has not passed
C27_Witness ==
  /\ onResultsCallback
  /\ lastFrame \in ConcreteLabels
  /\ Len(gestureBuffer) = RequiredCount(rev)
  /\ getMostFrequentGesture(rev, gestureBuffer) # NoGesture
  /\ received = <<>>
  /\ lastGestureTime > 0
  /\ now - lastGestureTime <= Cooldown(rev)

\* C28: a result delivered while no callback is registered, as after
\* destroy(), calls no callback, throws nothing and leaves the buffer empty
\* and lastGestureTime as it was; detectGesture on a recognizer that is not
\* initialized throws and leaves the callback and every field as they were.
C28_InertAfterDestroy ==
  [][/\ ~onResultsCallback => gestureBuffer = <<>>
     /\ FrameStep /\ ~onResultsCallback
          => /\ received' = <<>>
             /\ thrown' = "none"
             /\ gestureBuffer' = <<>>
             /\ lastGestureTime' = lastGestureTime
             /\ ~onResultsCallback'
     /\ thrown' = "NotInitialized"
          => /\ ~isInitialized
             /\ UNCHANGED <<isInitialized, onResultsCallback, gestureBuffer,
                            lastGestureTime, inFlight, received>>
     /\ (~isInitialized /\ inFlight' # inFlight) => FrameStep]_vars

\* a hand delivered after destroy(), which followed an emission
C28_Witness ==
  /\ ~onResultsCallback
  /\ lastFrame \in ConcreteLabels
  /\ received = <<>>
  /\ gestureBuffer = <<>>
  /\ lastGestureTime > 0
  /\ thrown = "none"

\* C30: there is never more than one interval timer, and the ref holds a
\* timer exactly when one exists; once the effect has run with the current
\* values of isDetecting, hasCamera and modelReady a timer is registered
\* only if all three are true, and after stopDetection none is.
C30_SingleTimer ==
  /\ timers <= 1
  /\ detectionInterval <=> timers = 1
  /\ effectSaw = EffectDeps
       => /\ detectionInterval => isDetecting /\ hasCamera /\ modelReady
          /\ ~(isDetecting /\ hasCamera /\ modelReady) => timers = 0

\* detection was started and then stopped by the user: the effect has run
\* for the change and the timer that polled the recognizer is gone
C30_Witness ==
  /\ lastSessionOp = "stop"
  /\ ~isDetecting /\ hasCamera /\ modelReady
  /\ effectSaw = EffectDeps
  /\ timers = 0
  /\ lastGestureTime > 0

=============================================================================
